---- MODULE Spec2Model ----
(***************************************************************************)
(* A model of the document-insight pipeline of backend/python_model:       *)
(*                                                                         *)
(*   * the Relevance Ranker, SectionExtractor.get_sections_with_content    *)
(*     (section_extractor.py), as the state machine of its filter/score    *)
(*     pass and of its selection loop (specification SpecRank);            *)
(*   * the orchestrator, process_pdfs_with_ml (main.py), with the          *)
(*     embedding-model singleton of ml_model.py and the PDF / PDFSection   *)
(*     persistence of models/pdf.py (specification Spec).                  *)
(*                                                                         *)
(* Numbers.  Python floats are modelled by exact scaled integers:          *)
(*   cosine similarities given to the ranker   thousandths                 *)
(*   final_score = 0.4*overall + 0.6*thematic  1/10000   (4*o + 6*t)       *)
(*   penalty     = 1.0 - count*0.60            tenths    (10 - 6*count)    *)
(*   penalized_score, best_score               1/100000                    *)
(* so comparisons are those of the real numbers the floats stand for.      *)
(***************************************************************************)
EXTENDS Integers, Sequences, FiniteSets, TLC

VARIABLES
    \* ---- get_sections_with_content(docs, req, k) ----
    docs,            \* argument: <<[filename, sections]>>
    k,               \* argument: number of results wanted
    dynamic_themes,  \* result of _extract_dynamic_themes(job_text): a set of themes
    rpc,             \* position in the function: "score", "select", "done"
    all_sections,    \* the filtered, scored sections (local all_sections)
    candidates,      \* local candidates (sorted, shrinking)
    final_results,   \* local final_results
    seen_titles,     \* local seen_titles
    ret,             \* the returned list (set when rpc becomes "done")
    rounds,          \* number of loop iterations executed (history)
    \* ---- ml_model.py ----
    _MODEL,          \* the module global: NotLoaded (None) or Loaded
    gm_pc,           \* thread -> its position in get_model()
    loads,           \* SentenceTransformer(...) constructions completed (history)
    ready_seen,      \* is_model_ready() has returned True (history)
    \* ---- persistence (models/pdf.py) ----
    db,              \* pdf id -> PDF row with its PDFSection rows
    \* ---- process_pdfs_with_ml(job_to_be_done, user_id, pdf_ids, k) ----
    pc,              \* position in the function
    job_to_be_done,  \* argument
    pdf_ids,         \* argument (a set: the query returns rows in table order)
    top_k,           \* argument k
    pdfs,            \* local pdfs: the ids of the rows retrieved, in order
    pdf_i,           \* index of the for loop over pdfs
    sections,        \* locals sections / sections_with_embeddings
    p_all_sections,  \* local all_sections
    query_embedding, \* local query_embedding
    result,          \* the returned dict (kind "none" until the function returns)
    \* ---- history of the current call ----
    model_seen,      \* _MODEL as read by the readiness check of line 170
    existing_seen,   \* pdf id -> existing_sections as read at line 183
    section_encodes, \* pdf id -> encode_text calls made for its sections
    query_encodes,   \* Embedding Provider calls made for the query
    extractions,     \* pdf id -> extract_sections_from_pdf calls
    commits,         \* pdf id -> db.session.commit() calls that succeeded
    db_reads,        \* get_pdfs_from_db calls
    \* ---- SubsectionAnalyzer.analyze_subsections(sections, req_model) ----
    an_pc,           \* position in the function
    an_sections,     \* argument sections
    an_i,            \* index of the for loop over sections
    summary_outputs, \* local summary_outputs, returned at the end
    \* ---- PDFProcessor.extract_text_with_structure(file_path) ----
    seg_pc,                  \* position in the function
    seg_pages,               \* pdf.pages of the opened file
    page_num,                \* index of the loop over pages (from 1)
    line_idx,                \* index of the loop over the lines of the page
    current_section_title,   \* local (<<>> for None)
    current_section_content, \* local: the line texts appended so far
    current_section_page,    \* local
    doc_sections,            \* doc_data["sections"]
    seg_error,               \* the except clause has run (history)
    \* ---- the title test of one line (pdf_processor.py lines 21-46) ----
    cl_pc,           \* position: "start", "done"
    cl_input,        \* the first page's word sizes and the line read
    is_title,        \* local is_title
    \* ---- the route process_pdf(pdf_id) (routes/pdf_routes.py) ----
    rt_pc,           \* position in the route
    rt_pdf,          \* pdf_id of the request (0: none)
    rt_status        \* HTTP status of the response (0: none yet)

rvars == <<docs, k, dynamic_themes, rpc, all_sections, candidates,
           final_results, seen_titles, ret, rounds>>

mvars == <<_MODEL, gm_pc, loads, ready_seen>>

pvars == <<db, pc, job_to_be_done, pdf_ids, top_k, pdfs, pdf_i, sections,
           p_all_sections, query_embedding, result>>

hvars == <<model_seen, existing_seen, section_encodes, query_encodes,
           extractions, commits, db_reads>>

avars == <<an_pc, an_sections, an_i, summary_outputs>>

svars == <<seg_pc, seg_pages, page_num, line_idx, current_section_title,
           current_section_content, current_section_page, doc_sections,
           seg_error>>

cvars == <<cl_pc, cl_input, is_title>>

wvars == <<rt_pc, rt_pdf, rt_status>>

ovars == <<cvars, wvars>>

tvars == <<avars, svars, ovars>>

vars == <<rvars, mvars, pvars, hvars, tvars>>

(***************************************************************************)
(* Bounds of the ranker's inputs.                                          *)
(***************************************************************************)
MaxSections == 4     \* sections in the corpus, over both documents
MaxK == 3            \* largest k tried (k >= 1)

(***************************************************************************)
(* Text.  A title is a string; Python's split() and substring test on it   *)
(* are tabulated over the titles the model uses.  A content is a record    *)
(* [words500 |-> number of words of content[:500]] plus, for the ranker,   *)
(* the cosine similarities the embedding model yields for the section's    *)
(* text (overall: against the query; thematic: the weighted mean against   *)
(* the themes), in thousandths.                                            *)
(***************************************************************************)
\* the names tempfile.NamedTemporaryFile(suffix='.pdf') may give the copy
\* of a stored file (main.py lines 203-205): a new name at every call
TempNames == { "tmp1.pdf", "tmp2.pdf" }

\* the segmenter's f"Error processing {doc_filename}" (pdf_processor.py line 62)
ErrorProcessing(doc_filename) ==
    IF doc_filename = "tmp1.pdf" THEN "Error processing tmp1.pdf"
    ELSE "Error processing tmp2.pdf"

PlaceholderTitle == ErrorProcessing("tmp1.pdf")

PlaceholderTitles == { ErrorProcessing(n) : n \in TempNames }

\* len(title.split())
TitleWordCount(title) ==
    CASE title \in PlaceholderTitles -> 3
      [] title = "" -> 0
      [] OTHER -> 1

\* ".pdf" in title
ContainsDotPdf(title) == title \in PlaceholderTitles

\* len(f"{title}. {content[:500]}".split()): the "." joins the title's last
\* word, and stands alone as a word when the title is empty.
SectionTextWords(title, content) ==
    (IF title = "" THEN 1 ELSE TitleWordCount(title)) + content.words500

MinSectionWords == 10

RankSection(title, words, o, t) ==
    [section_title |-> title,
     content |-> [words500 |-> words, overall |-> o, thematic |-> t],
     page_number |-> 1]

\* The sections a corpus is built from: final scores high, lower, low and
\* negative (overall and thematic similarity differ, so the blend matters);
\* the segmenter's placeholder title; a section one word short of the
\* 10-word minimum.  A corpus may hold the same section twice, in one
\* document or in both, which gives equal titles and equal scores.
SectionPool ==
    { RankSection("Overview", 9, 900, 900),
      RankSection("Budget", 9, 600, 900),
      RankSection("Costs", 9, 400, -100),
      RankSection("Timeline", 9, -500, -500),
      RankSection(PlaceholderTitle, 9, 950, 950),
      RankSection("Budget", 8, 850, 850) }

Corpora ==
    { << [filename |-> "a.pdf", sections |-> SubSeq(s, 1, cut)],
         [filename |-> "b.pdf", sections |-> SubSeq(s, cut + 1, Len(s))] >> :
        <<s, cut>> \in { <<s, cut>> \in
            (UNION { [1..n -> SectionPool] : n \in 0..MaxSections }) \X (0..MaxSections) :
                cut <= Len(s) } }

\* The corpus of the end-to-end scenario: Doc A scores 0.9, 0.85, 0.8, 0.3,
\* 0.1 and Doc B scores 0.7, 0.6, all titles distinct.
ScenarioDocs ==
    << [filename |-> "a.pdf", sections |->
          << RankSection("A1", 9, 900, 900), RankSection("A2", 9, 850, 850),
             RankSection("A3", 9, 800, 800), RankSection("A4", 9, 300, 300),
             RankSection("A5", 9, 100, 100) >>],
       [filename |-> "b.pdf", sections |->
          << RankSection("B1", 9, 700, 700), RankSection("B2", 9, 600, 600) >>] >>

\* Doc A of the scenario alone: one document with 5 distinct titles
SingleDocument == << ScenarioDocs[1] >>

ThemeSets == { {}, {"theme"} }

(***************************************************************************)
(* Scoring (section_extractor.py lines 139-166).                           *)
(***************************************************************************)
\* thematic_score: 0.0 without themes, else the weighted mean
ThematicScore(section, themes) ==
    IF themes = {} THEN 0 ELSE section.content.thematic

\* final_score = (overall_relevance_score * 0.4) + (thematic_score * 0.6)
FinalScore(section, themes) ==
    section.content.overall * 4 + ThematicScore(section, themes) * 6

\* the two `continue` filters of the scoring loop
PassesFilter(section) ==
    /\ ~ContainsDotPdf(section.section_title)
    /\ SectionTextWords(section.section_title, section.content) >= MinSectionWords

\* {**section, "document": doc["filename"], "final_score": final_score}
Scored(section, doc, themes) ==
    [section_title |-> section.section_title,
     content |-> section.content,
     page_number |-> section.page_number,
     document |-> doc.filename,
     final_score |-> FinalScore(section, themes)]

RECURSIVE FilterSeq(_)
FilterSeq(s) ==
    IF s = <<>> THEN <<>>
    ELSE IF PassesFilter(Head(s)) THEN <<Head(s)>> \o FilterSeq(Tail(s))
    ELSE FilterSeq(Tail(s))

ScoreDoc(doc, themes) ==
    LET kept == FilterSeq(doc.sections)
    IN  [i \in 1..Len(kept) |-> Scored(kept[i], doc, themes)]

RECURSIVE ScoreDocs(_, _)
ScoreDocs(ds, themes) ==
    IF ds = <<>> THEN <<>>
    ELSE ScoreDoc(Head(ds), themes) \o ScoreDocs(Tail(ds), themes)

\* sorted(all_sections, key=final_score, reverse=True): stable, so equal
\* scores keep their input order.
SortByFinalScoreDesc(s) ==
    LET n == Len(s)
        pos(i) == 1 + Cardinality({ j \in 1..n :
                        \/ s[j].final_score > s[i].final_score
                        \/ s[j].final_score = s[i].final_score /\ j < i })
    IN  [p \in 1..n |-> s[CHOOSE i \in 1..n : pos(i) = p]]

(***************************************************************************)
(* Selection (section_extractor.py lines 173-204).                         *)
(***************************************************************************)
DIVERSITY_PENALTY_halved == 6 \div 2
DIVERSITY_PENALTY == 6

InitialBestScore == -100000      \* best_score = -1.0

\* doc_counts[d] after the loop over final_results
DocCount(results, d) ==
    Cardinality({ i \in 1..Len(results) : results[i].document = d })

\* if candidate["section_title"] in seen_titles: continue
TitleSeen_never(candidate, seen) == FALSE
TitleSeen(candidate, seen) == candidate.section_title \in seen

\* penalty = 1.0 - (doc_counts[doc_name] * DIVERSITY_PENALTY), in tenths
Penalty_ignores_count(count) == 10
Penalty(count) == 10 - count * DIVERSITY_PENALTY

\* penalized_score = candidate["final_score"] * penalty
PenalizedScore(candidate, results) ==
    candidate.final_score * Penalty(DocCount(results, candidate.document))

RECURSIVE ScanCandidates_last_max(_, _, _, _, _, _)
ScanCandidates_last_max(cands, results, seen, i, best_score, best) ==
    IF i > Len(cands) THEN best
    ELSE IF TitleSeen(cands[i], seen)
         THEN ScanCandidates_last_max(cands, results, seen, i + 1, best_score, best)
    ELSE IF PenalizedScore(cands[i], results) >= best_score
         THEN ScanCandidates_last_max(cands, results, seen, i + 1,
                                      PenalizedScore(cands[i], results), i)
    ELSE ScanCandidates_last_max(cands, results, seen, i + 1, best_score, best)

\* The for loop over candidates from position i on, carrying best_score and
\* the index of best_candidate (0 for None).
RECURSIVE ScanCandidates(_, _, _, _, _, _)
ScanCandidates(cands, results, seen, i, best_score, best) ==
    IF i > Len(cands) THEN best
    ELSE IF TitleSeen(cands[i], seen)
         THEN ScanCandidates(cands, results, seen, i + 1, best_score, best)
    ELSE IF PenalizedScore(cands[i], results) > best_score
         THEN ScanCandidates(cands, results, seen, i + 1,
                             PenalizedScore(cands[i], results), i)
    ELSE ScanCandidates(cands, results, seen, i + 1, best_score, best)

BestCandidate(cands, results, seen) ==
    ScanCandidates(cands, results, seen, 1, InitialBestScore, 0)

\* candidates.remove(x): drops the first element equal to x
RemoveFirst(s, x) ==
    LET i == CHOOSE j \in 1..Len(s) :
                 s[j] = x /\ \A h \in 1..(j - 1) : s[h] # x
    IN  SubSeq(s, 1, i - 1) \o SubSeq(s, i + 1, Len(s))

(***************************************************************************)
(* The embedding model (ml_model.py).                                      *)
(*                                                                         *)
(* The model is deterministic: the vector it gives a text is a property of *)
(* the text, carried as content.vec.  Vectors are integer pairs of         *)
(* Euclidean norm 5, so a cosine similarity is exactly dot/25; relevance   *)
(* scores are kept in units of 1/25.                                       *)
(***************************************************************************)
NotLoaded == "None"
Loaded == "SentenceTransformer"

NumCallers == 3      \* threads that may call get_model()

Callers == 1..NumCallers

\* no thread is inside get_model()
NoCallers == [t \in Callers |-> "out"]

\* is_model_ready(): return _MODEL is not None
is_model_ready_always(m) == TRUE
is_model_ready(m) == m # NotLoaded

\* encode_text(text): raises when the model is not loaded, and when
\* _MODEL.encode raises (fails); else the vector as a list
encode_text(m, text, fails) ==
    IF ~is_model_ready(m) THEN [raised |-> TRUE, value |-> <<>>]
    ELSE IF fails THEN [raised |-> TRUE, value |-> <<>>]
    ELSE [raised |-> FALSE, value |-> text.vec]

\* cosine_similarity(a, b)[0][0] for vectors of norm 5, times 25
CosineSimilarity(a, b) == a[1] * b[1] + a[2] * b[2]

(***************************************************************************)
(* Documents.  A stored file is described by what PDFProcessor meets in    *)
(* it: the sections its line walk appends, and whether page or text        *)
(* extraction raises (with the exception's message).                       *)
(***************************************************************************)
NumPdfs == 2         \* PDF rows of the user
MaxTopK == 2         \* largest k a request asks for

PdfIds == 1..NumPdfs

Content(words, length, vec) == [words500 |-> words, len |-> length, vec |-> vec]

RawSection(title, content, page) ==
    [section_title |-> title, content |-> content, page_number |-> page]

NoFile == [present |-> FALSE, sections |-> <<>>, raises |-> FALSE,
           message |-> Content(0, 0, <<>>)]

\* a section below the 10-word minimum, then two that pass it, of exactly
\* 300 characters and of 301
FileGood ==
    [present |-> TRUE, raises |-> FALSE, message |-> Content(0, 0, <<>>),
     sections |-> << RawSection("Preface", Content(8, 30, <<0, 5>>), 1),
                     RawSection("Overview", Content(9, 300, <<4, 3>>), 1),
                     RawSection("Budget", Content(9, 301, <<3, 4>>), 2) >>]

\* every section has fewer than 10 words
FileShort ==
    [present |-> TRUE, raises |-> FALSE, message |-> Content(0, 0, <<>>),
     sections |-> << RawSection("Notes", Content(8, 40, <<0, 5>>), 1) >>]

\* extraction raises before any section is appended; the message has 9 words
FileBroken ==
    [present |-> TRUE, raises |-> TRUE, message |-> Content(9, 45, <<5, 0>>),
     sections |-> <<>>]

FileData == { NoFile, FileGood, FileShort, FileBroken }

\* the stored files of the user's rows: documents that segment well, but
\* for one row at most
Libraries ==
    { lib \in [PdfIds -> FileData] :
         \A a, b \in PdfIds :
             (lib[a] # FileGood /\ lib[b] # FileGood) => a = b }

\* original_filename of a row
OriginalFilename(id) == IF id = 1 THEN "a.pdf" ELSE "b.pdf"

Jobs == { "", "plan a trip" }

\* the vector of f"Task: {job_to_be_done}"
JobText(job) == [vec |-> IF job = "" THEN <<0, 5>> ELSE <<5, 0>>]

KValues == {0, 1, MaxTopK}

\* the calls tried: (job_to_be_done, k) with at most one of the two that
\* the specification calls invalid
Requests ==
    { r \in Jobs \X KValues : r[1] # "" \/ r[2] > 0 }

\* PDFProcessor.extract_text_with_structure: the sections of the document;
\* on an exception, a single placeholder section unless sections were
\* already appended (pdf_processor.py lines 59-62)
extract_text_with_structure(file, doc_filename) ==
    IF file.raises /\ file.sections = <<>>
    THEN << RawSection(ErrorProcessing(doc_filename), file.message, 1) >>
    ELSE file.sections

\* extract_sections_from_pdf, from position idx on: keeps the sections of
\* at least 10 words, with section_index the position in the document
RECURSIVE ExtractFrom(_, _)
ExtractFrom(secs, idx) ==
    IF idx > Len(secs) THEN <<>>
    ELSE IF SectionTextWords(secs[idx].section_title, secs[idx].content)
              >= MinSectionWords
         THEN << [section_title |-> secs[idx].section_title,
                  content |-> secs[idx].content,
                  page_number |-> secs[idx].page_number,
                  section_index |-> idx - 1] >> \o ExtractFrom(secs, idx + 1)
    ELSE ExtractFrom(secs, idx + 1)

extract_sections_from_pdf(file, pdf_path) ==
    ExtractFrom(extract_text_with_structure(file, pdf_path), 1)

\* generate_embeddings_for_sections: section['embedding'] is the vector, or
\* [] when encode_text raised (the sections whose index is in failed)
generate_embeddings_for_sections(m, secs, failed) ==
    [i \in 1..Len(secs) |->
        [section_title |-> secs[i].section_title,
         content |-> secs[i].content,
         page_number |-> secs[i].page_number,
         section_index |-> secs[i].section_index,
         embedding |-> encode_text(m, secs[i].content, i \in failed).value]]

(***************************************************************************)
(* Persistence (models/pdf.py).  embedding_json is a JSON text, modelled   *)
(* as the sequence of its tokens; a NULL column is the empty sequence.     *)
(***************************************************************************)
JsonDumps(list) == <<"[">> \o [i \in 1..Len(list) |-> <<list[i]>>] \o <<"]">>

JsonLoads(text) == [i \in 1..(Len(text) - 2) |-> text[i + 1][1]]

\* PDFSection.set_embedding / PDF.add_section: the column is set only for
\* a non-empty embedding
EmbeddingColumn_first_component(embedding) ==
    IF embedding # <<>> THEN JsonDumps(<<embedding[1], 0>>) ELSE <<>>
EmbeddingColumn(embedding) ==
    IF embedding # <<>> THEN JsonDumps(embedding) ELSE <<>>

\* PDFSection.get_embedding
get_embedding(row) ==
    IF row.embedding_json # <<>> THEN JsonLoads(row.embedding_json) ELSE <<>>

\* save_embeddings_to_db: clear_sections(), then add_section per element
\* with section_index = its position in sections_data
SavedRows(sections_data) ==
    [idx \in 1..Len(sections_data) |->
        [section_title |-> sections_data[idx].section_title,
         content |-> sections_data[idx].content,
         page_number |-> sections_data[idx].page_number,
         section_index |-> idx - 1,
         embedding_json |-> EmbeddingColumn(sections_data[idx].embedding)]]

\* PDF.get_sections_with_embeddings (the row id, never read, is left out)
get_sections_with_embeddings(pdf) ==
    [i \in 1..Len(pdf.sections) |->
        [section_title |-> pdf.sections[i].section_title,
         content |-> pdf.sections[i].content,
         page_number |-> pdf.sections[i].page_number,
         section_index |-> pdf.sections[i].section_index,
         embedding |-> get_embedding(pdf.sections[i])]]

(***************************************************************************)
(* process_pdfs_with_ml (main.py), its pure parts.                         *)
(***************************************************************************)
\* line 185: existing_sections and all(section.get('embedding') ...)
CacheHit_never(existing) == FALSE
CacheHit_any_embedded(existing) ==
    /\ existing # <<>>
    /\ \E i \in 1..Len(existing) : existing[i].embedding # <<>>
CacheHit(existing) ==
    /\ existing # <<>>
    /\ \A i \in 1..Len(existing) : existing[i].embedding # <<>>

\* lines 187-189 and 221-223: section['source_pdf'], section['pdf_id']
Tagged(secs, id) ==
    [i \in 1..Len(secs) |->
        [section_title |-> secs[i].section_title,
         content |-> secs[i].content,
         page_number |-> secs[i].page_number,
         section_index |-> secs[i].section_index,
         embedding |-> secs[i].embedding,
         source_pdf |-> OriginalFilename(id),
         pdf_id |-> id]]

\* lines 238-245: relevance_score
RelevanceScore(section, q) ==
    IF section.embedding # <<>> THEN CosineSimilarity(section.embedding, q)
    ELSE 0

\* sorted(all_sections, key=relevance_score, reverse=True): stable
SortByRelevanceDesc(s, q) ==
    LET n == Len(s)
        key(i) == RelevanceScore(s[i], q)
        pos(i) == 1 + Cardinality({ j \in 1..n :
                        \/ key(j) > key(i)
                        \/ key(j) = key(i) /\ j < i })
    IN  [p \in 1..n |-> s[CHOOSE i \in 1..n : pos(i) = p]]

Min(a, b) == IF a < b THEN a ELSE b
Max(a, b) == IF a > b THEN a ELSE b

\* the slice s[:n]: the first n elements, or for a negative n all but the
\* last -n
Slice(s, n) ==
    IF n >= 0 THEN SubSeq(s, 1, Min(n, Len(s)))
    ELSE SubSeq(s, 1, Max(Len(s) + n, 0))

TruncateAt == 300

\* section['content'][:300] + "..." if len(section['content']) > 300
CardContent_at_limit(content) ==
    IF content.len >= TruncateAt
    THEN [of |-> content, chars |-> TruncateAt, ellipsis |-> TRUE]
    ELSE [of |-> content, chars |-> content.len, ellipsis |-> FALSE]

CardContent(content) ==
    IF content.len > TruncateAt
    THEN [of |-> content, chars |-> TruncateAt, ellipsis |-> TRUE]
    ELSE [of |-> content, chars |-> content.len, ellipsis |-> FALSE]

InsightCards_zero_based(top_sections, q) ==
    [rank \in 1..Len(top_sections) |->
        [id |-> <<"insight", top_sections[rank].pdf_id,
                  top_sections[rank].section_index>>,
         pdfName |-> top_sections[rank].source_pdf,
         sectionTitle |-> top_sections[rank].section_title,
         content |-> CardContent(top_sections[rank].content),
         pageNumber |-> top_sections[rank].page_number,
         importanceRank |-> rank - 1,
         relevanceScore |-> RelevanceScore(top_sections[rank], q)]]

\* lines 253-264
InsightCards(top_sections, q) ==
    [rank \in 1..Len(top_sections) |->
        [id |-> <<"insight", top_sections[rank].pdf_id,
                  top_sections[rank].section_index>>,
         pdfName |-> top_sections[rank].source_pdf,
         sectionTitle |-> top_sections[rank].section_title,
         content |-> CardContent(top_sections[rank].content),
         pageNumber |-> top_sections[rank].page_number,
         importanceRank |-> rank,
         relevanceScore |-> RelevanceScore(top_sections[rank], q)]]

NoResult == [kind |-> "none", error |-> "", sections |-> <<>>,
             total_sections_processed |-> 0, top_insights_returned |-> 0]

ErrorResult(msg) == [kind |-> "error", error |-> msg, sections |-> <<>>,
                     total_sections_processed |-> 0, top_insights_returned |-> 0]

\* lines 269-281
InsightsResult(cards, n) ==
    [kind |-> "insights", error |-> "", sections |-> cards,
     total_sections_processed |-> n, top_insights_returned |-> Len(cards)]

\* while len(final_results) < k and candidates
LoopGuard_off_by_one == Len(final_results) <= k /\ candidates # <<>>
LoopGuard == Len(final_results) < k /\ candidates # <<>>

(***************************************************************************)
(* Initial values.                                                         *)
(***************************************************************************)
ZeroCounts == [id \in PdfIds |-> 0]

NothingSeen == [id \in PdfIds |-> [read |-> FALSE, sections |-> <<>>]]

\* no call of process_pdfs_with_ml is in progress
PipelineIdle ==
    /\ pc = "idle"
    /\ job_to_be_done = ""
    /\ pdf_ids = {}
    /\ top_k = 0
    /\ pdfs = <<>>
    /\ pdf_i = 0
    /\ sections = <<>>
    /\ p_all_sections = <<>>
    /\ query_embedding = <<>>
    /\ result = NoResult
    /\ model_seen = NotLoaded
    /\ existing_seen = NothingSeen
    /\ section_encodes = ZeroCounts
    /\ query_encodes = 0
    /\ extractions = ZeroCounts
    /\ commits = ZeroCounts
    /\ db_reads = 0

\* no call of analyze_subsections is in progress
AnalyzerIdle ==
    /\ an_pc = "idle"
    /\ an_sections = <<>>
    /\ an_i = 0
    /\ summary_outputs = <<>>

\* no call of extract_text_with_structure is in progress
SegmenterIdle ==
    /\ seg_pc = "idle"
    /\ seg_pages = <<>>
    /\ page_num = 0
    /\ line_idx = 0
    /\ current_section_title = <<>>
    /\ current_section_content = <<>>
    /\ current_section_page = 1
    /\ doc_sections = <<>>
    /\ seg_error = FALSE

\* no title test is in progress
ClassifierIdle ==
    /\ cl_pc = "idle"
    /\ cl_input = <<>>
    /\ is_title = FALSE

\* no request of process_pdf is in progress
RouteIdle ==
    /\ rt_pc = "idle"
    /\ rt_pdf = 0
    /\ rt_status = 0

TextIdle == AnalyzerIdle /\ SegmenterIdle /\ ClassifierIdle /\ RouteIdle

\* no call of get_sections_with_content is in progress
RankerIdle ==
    /\ docs = <<>>
    /\ k = 1
    /\ dynamic_themes = {}
    /\ rpc = "idle"
    /\ all_sections = <<>>
    /\ candidates = <<>>
    /\ final_results = <<>>
    /\ seen_titles = {}
    /\ ret = <<>>
    /\ rounds = 0

NewRow(file) ==
    [file_data |-> file, sections |-> <<>>, processing_status |-> "pending"]

RankInit ==
    /\ \/ docs \in Corpora /\ k \in 1..MaxK /\ dynamic_themes = {"theme"}
       \/ docs = ScenarioDocs /\ k = 3 /\ dynamic_themes \in ThemeSets
       \/ docs = SingleDocument /\ k = 5 /\ dynamic_themes = {"theme"}
    /\ rpc = "score"
    /\ all_sections = <<>>
    /\ candidates = <<>>
    /\ final_results = <<>>
    /\ seen_titles = {}
    /\ ret = <<>>
    /\ rounds = 0
    /\ _MODEL = Loaded
    /\ gm_pc = NoCallers
    /\ loads = 1
    /\ ready_seen = FALSE
    /\ db = [id \in PdfIds |-> NewRow(NoFile)]
    /\ PipelineIdle
    /\ TextIdle

\* lines 139-171: filter and score; return [] when nothing is left
ScoreSections ==
    /\ rpc = "score"
    /\ all_sections' = ScoreDocs(docs, dynamic_themes)
    /\ IF all_sections' = <<>>
       THEN /\ rpc' = "done"
            /\ ret' = <<>>
            /\ candidates' = candidates
       ELSE /\ rpc' = "select"
            /\ ret' = ret
            /\ candidates' = SortByFinalScoreDesc(all_sections')
    /\ UNCHANGED <<docs, k, dynamic_themes, final_results, seen_titles, rounds>>
    /\ UNCHANGED <<mvars, pvars, hvars, tvars>>

\* one iteration of the while loop that selects a candidate (lines 178-200)
SelectRound ==
    /\ rpc = "select"
    /\ LoopGuard
    /\ LET b == BestCandidate(candidates, final_results, seen_titles)
       IN  /\ b # 0
           /\ final_results' = Append(final_results, candidates[b])
           /\ seen_titles' = seen_titles \cup {candidates[b].section_title}
           /\ candidates' = RemoveFirst(candidates, candidates[b])
    /\ rounds' = rounds + 1
    /\ UNCHANGED <<docs, k, dynamic_themes, rpc, all_sections, ret>>
    /\ UNCHANGED <<mvars, pvars, hvars, tvars>>

\* an iteration that finds no candidate: break, then return (lines 201-204)
BreakRound ==
    /\ rpc = "select"
    /\ LoopGuard
    /\ BestCandidate(candidates, final_results, seen_titles) = 0
    /\ rpc' = "done"
    /\ ret' = final_results
    /\ rounds' = rounds + 1
    /\ UNCHANGED <<docs, k, dynamic_themes, all_sections, candidates,
                   final_results, seen_titles>>
    /\ UNCHANGED <<mvars, pvars, hvars, tvars>>

\* the loop condition fails: return final_results (line 204)
ReturnResults ==
    /\ rpc = "select"
    /\ ~LoopGuard
    /\ rpc' = "done"
    /\ ret' = final_results
    /\ UNCHANGED <<docs, k, dynamic_themes, all_sections, candidates,
                   final_results, seen_titles, rounds>>
    /\ UNCHANGED <<mvars, pvars, hvars, tvars>>

RankNext == ScoreSections \/ SelectRound \/ BreakRound \/ ReturnResults

SpecRank == RankInit /\ [][RankNext]_vars

(***************************************************************************)
(* The orchestrator: process_pdfs_with_ml, one call at a time, beside the  *)
(* model loader.                                                           *)
(***************************************************************************)
Init ==
    /\ _MODEL \in {NotLoaded, Loaded}    \* the import-time load failed or not
    /\ gm_pc = NoCallers
    /\ loads = IF _MODEL = Loaded THEN 1 ELSE 0
    /\ ready_seen = FALSE
    /\ db \in { [id \in PdfIds |-> NewRow(lib[id])] : lib \in Libraries }
    /\ PipelineIdle
    /\ TextIdle
    /\ RankerIdle

CurrentPdf == pdfs[pdf_i]

\* the ids of a set in ascending order, as the query returns the rows
RECURSIVE InOrder(_)
InOrder(ids) ==
    IF ids = {} THEN <<>>
    ELSE LET m == CHOOSE x \in ids : \A y \in ids : x <= y
         IN  <<m>> \o InOrder(ids \ {m})

\* get_pdfs_from_db: the rows of the user among pdf_ids
get_pdfs_from_db(ids) == InOrder(ids \cap PdfIds)

Fail(msg) ==
    /\ result' = ErrorResult(msg)
    /\ pc' = "done"

\* a call of ml_model.get_model() by one thread outside a request: loads
\* the model when it is not loaded; the load may fail
LoadModel ==
    /\ _MODEL = NotLoaded
    /\ \E ok \in BOOLEAN :
          /\ _MODEL' = IF ok THEN Loaded ELSE NotLoaded
          /\ loads' = IF ok THEN loads + 1 ELSE loads
    /\ UNCHANGED <<gm_pc, ready_seen, rvars, pvars, hvars, tvars>>

\* lines 151-171: the call and its readiness check
CallWith(job, ids, kk) ==
    /\ pc = "idle"
    /\ job_to_be_done' = job
    /\ pdf_ids' = ids
    /\ top_k' = kk
    /\ model_seen' = _MODEL
    /\ IF ~is_model_ready(_MODEL)
       THEN Fail("ML model not ready")
       ELSE /\ pc' = "get_pdfs"
            /\ result' = NoResult
    /\ pdfs' = <<>>
    /\ pdf_i' = 0
    /\ sections' = <<>>
    /\ p_all_sections' = <<>>
    /\ query_embedding' = <<>>
    /\ existing_seen' = NothingSeen
    /\ section_encodes' = ZeroCounts
    /\ query_encodes' = 0
    /\ extractions' = ZeroCounts
    /\ commits' = ZeroCounts
    /\ db_reads' = 0
    /\ UNCHANGED <<avars, svars, cvars, rvars, mvars, db>>

\* a call of process_pdfs_with_ml by the insights generator, outside
\* process_pdf
Call ==
    /\ \E r \in Requests, ids \in SUBSET PdfIds : CallWith(r[1], ids, r[2])
    /\ UNCHANGED wvars

\* line 175: get_pdfs_from_db raises when no row is found
GetPdfs ==
    /\ pc = "get_pdfs"
    /\ db_reads' = db_reads + 1
    /\ pdfs' = get_pdfs_from_db(pdf_ids)
    /\ IF pdfs' = <<>>
       THEN /\ Fail("Processing failed")
            /\ pdf_i' = pdf_i
       ELSE /\ pc' = "loop"
            /\ pdf_i' = 1
            /\ result' = result
    /\ UNCHANGED <<tvars, rvars, mvars, db, job_to_be_done, pdf_ids, top_k, sections,
                   p_all_sections, query_embedding, model_seen, existing_seen,
                   section_encodes, query_encodes, extractions, commits>>

InLoop == pc = "loop" /\ pdf_i <= Len(pdfs)

ReadExisting ==
    existing_seen' = [existing_seen EXCEPT ![CurrentPdf] =
        [read |-> TRUE, sections |-> get_sections_with_embeddings(db[CurrentPdf])]]

\* lines 183-190: every existing section has an embedding: reuse them
UseCached ==
    /\ InLoop
    /\ CacheHit(get_sections_with_embeddings(db[CurrentPdf]))
    /\ ReadExisting
    /\ p_all_sections' = p_all_sections \o
          Tagged(get_sections_with_embeddings(db[CurrentPdf]), CurrentPdf)
    /\ pdf_i' = pdf_i + 1
    /\ UNCHANGED <<tvars, rvars, mvars, db, pc, job_to_be_done, pdf_ids, top_k, pdfs,
                   sections, query_embedding, result, model_seen,
                   section_encodes, query_encodes, extractions, commits, db_reads>>

\* lines 196-199: no file data: continue
SkipMissingFile ==
    /\ InLoop
    /\ ~CacheHit(get_sections_with_embeddings(db[CurrentPdf]))
    /\ ~db[CurrentPdf].file_data.present
    /\ ReadExisting
    /\ pdf_i' = pdf_i + 1
    /\ UNCHANGED <<tvars, rvars, mvars, db, pc, job_to_be_done, pdf_ids, top_k, pdfs,
                   sections, p_all_sections, query_embedding, result, model_seen,
                   section_encodes, query_encodes, extractions, commits, db_reads>>

\* lines 201-212: extract the sections of the stored file, copied to a
\* temporary file
ExtractSections ==
    /\ InLoop
    /\ ~CacheHit(get_sections_with_embeddings(db[CurrentPdf]))
    /\ db[CurrentPdf].file_data.present
    /\ ReadExisting
    /\ \E temp_path \in TempNames :
          sections' = extract_sections_from_pdf(db[CurrentPdf].file_data, temp_path)
    /\ extractions' = [extractions EXCEPT ![CurrentPdf] = @ + 1]
    /\ pc' = "embed"
    /\ UNCHANGED <<tvars, rvars, mvars, db, job_to_be_done, pdf_ids, top_k, pdfs, pdf_i,
                   p_all_sections, query_embedding, result, model_seen,
                   section_encodes, query_encodes, commits, db_reads>>

\* the sections for which encode_text raises in one run of
\* generate_embeddings_for_sections over n sections: none, or every one
\* from some section on
FailurePatterns(n) == { j..n : j \in 1..(n + 1) }

\* line 215: generate_embeddings_for_sections; encode_text may raise from
\* any section on
GenerateEmbeddings ==
    /\ pc = "embed"
    /\ IF ~is_model_ready(_MODEL)
       THEN /\ Fail("Processing failed")
            /\ UNCHANGED <<sections, section_encodes>>
       ELSE /\ \E failed \in FailurePatterns(Len(sections)) :
                  sections' = generate_embeddings_for_sections(_MODEL, sections, failed)
            /\ section_encodes' =
                  [section_encodes EXCEPT ![CurrentPdf] = @ + Len(sections)]
            /\ pc' = "save"
            /\ result' = result
    /\ UNCHANGED <<tvars, rvars, mvars, db, job_to_be_done, pdf_ids, top_k, pdfs, pdf_i,
                   p_all_sections, query_embedding, model_seen, existing_seen,
                   query_encodes, extractions, commits, db_reads>>

\* lines 218-224: save_embeddings_to_db commits, then the sections join
\* all_sections
SaveEmbeddings ==
    /\ pc = "save"
    /\ db' = [db EXCEPT ![CurrentPdf] =
                 [file_data |-> @.file_data,
                  sections |-> SavedRows(sections),
                  processing_status |-> "completed"]]
    /\ commits' = [commits EXCEPT ![CurrentPdf] = @ + 1]
    /\ p_all_sections' = p_all_sections \o Tagged(sections, CurrentPdf)
    /\ pdf_i' = pdf_i + 1
    /\ pc' = "loop"
    /\ UNCHANGED <<tvars, rvars, mvars, job_to_be_done, pdf_ids, top_k, pdfs, sections,
                   query_embedding, result, model_seen, existing_seen,
                   section_encodes, query_encodes, extractions, db_reads>>

\* db.session.commit() raises: nothing is stored, the call fails (line 286)
CommitFails ==
    /\ pc = "save"
    /\ Fail("Processing failed")
    /\ UNCHANGED <<tvars, rvars, mvars, db, job_to_be_done, pdf_ids, top_k, pdfs, pdf_i,
                   sections, p_all_sections, query_embedding, hvars>>

\* lines 226-227: after the loop
EndLoop ==
    /\ pc = "loop"
    /\ pdf_i > Len(pdfs)
    /\ IF p_all_sections = <<>>
       THEN Fail("No sections found in the provided PDFs")
       ELSE /\ pc' = "query"
            /\ result' = result
    /\ UNCHANGED <<tvars, rvars, mvars, db, job_to_be_done, pdf_ids, top_k, pdfs, pdf_i,
                   sections, p_all_sections, query_embedding, hvars>>

\* lines 230-232: RequirementModeler(get_model()).parse_job_to_be_done;
\* the model's encode may raise
EmbedQuery ==
    /\ pc = "query"
    /\ query_encodes' = query_encodes + 1
    /\ \E fails \in BOOLEAN :
          LET e == encode_text(_MODEL, JobText(job_to_be_done), fails)
          IN  IF e.raised
              THEN /\ Fail("Processing failed")
                   /\ query_embedding' = query_embedding
              ELSE /\ query_embedding' = e.value
                   /\ pc' = "score"
                   /\ result' = result
    /\ UNCHANGED <<tvars, rvars, mvars, db, job_to_be_done, pdf_ids, top_k, pdfs, pdf_i,
                   sections, p_all_sections, model_seen, existing_seen,
                   section_encodes, extractions, commits, db_reads>>

\* lines 238-284: score, sort, take the top k, format, return
ScoreAndFormat ==
    /\ pc = "score"
    /\ LET top_sections ==
              Slice(SortByRelevanceDesc(p_all_sections, query_embedding), top_k)
       IN  result' = InsightsResult(InsightCards(top_sections, query_embedding),
                                    Len(p_all_sections))
    /\ pc' = "done"
    /\ UNCHANGED <<tvars, rvars, mvars, db, job_to_be_done, pdf_ids, top_k, pdfs, pdf_i,
                   sections, p_all_sections, query_embedding, hvars>>

\* the caller has the returned value; the locals of the call are gone
ForgetCall ==
    /\ pc' = "idle"
    /\ job_to_be_done' = ""
    /\ pdf_ids' = {}
    /\ top_k' = 0
    /\ pdfs' = <<>>
    /\ pdf_i' = 0
    /\ sections' = <<>>
    /\ p_all_sections' = <<>>
    /\ query_embedding' = <<>>
    /\ result' = NoResult
    /\ model_seen' = NotLoaded
    /\ existing_seen' = NothingSeen
    /\ section_encodes' = ZeroCounts
    /\ query_encodes' = 0
    /\ extractions' = ZeroCounts
    /\ commits' = ZeroCounts
    /\ db_reads' = 0
    /\ UNCHANGED <<avars, svars, cvars, rvars, mvars, db>>

Return ==
    /\ pc = "done"
    /\ ForgetCall
    /\ UNCHANGED wvars

Next ==
    \/ LoadModel
    \/ Call
    \/ GetPdfs
    \/ UseCached
    \/ SkipMissingFile
    \/ ExtractSections
    \/ GenerateEmbeddings
    \/ SaveEmbeddings
    \/ CommitFails
    \/ EndLoop
    \/ EmbedQuery
    \/ ScoreAndFormat
    \/ Return

Spec == Init /\ [][Next]_vars

(***************************************************************************)
(* get_model() under threads (ml_model.py lines 15-55).  The function      *)
(* tests _MODEL is None, then constructs the SentenceTransformer, then     *)
(* assigns the global; no lock is held, so another thread may run between  *)
(* the test and the assignment.                                            *)
(***************************************************************************)
ModelInit ==
    /\ _MODEL = NotLoaded
    /\ gm_pc = NoCallers
    /\ loads = 0
    /\ ready_seen = FALSE
    /\ db = [id \in PdfIds |-> NewRow(NoFile)]
    /\ PipelineIdle
    /\ TextIdle
    /\ RankerIdle

\* line 31: if _MODEL is None
TestModel(t) ==
    /\ gm_pc[t] = "out"
    /\ gm_pc' = [gm_pc EXCEPT ![t] =
                    IF _MODEL = NotLoaded THEN "loading" ELSE "returned"]
    /\ UNCHANGED <<_MODEL, loads, ready_seen, rvars, pvars, hvars, tvars>>

\* lines 37-44: _MODEL = SentenceTransformer(...), or the exception
ConstructModel(t) ==
    /\ gm_pc[t] = "loading"
    /\ \E ok \in BOOLEAN :
          IF ok
          THEN /\ _MODEL' = Loaded
               /\ loads' = loads + 1
               /\ gm_pc' = [gm_pc EXCEPT ![t] = "returned"]
          ELSE /\ gm_pc' = [gm_pc EXCEPT ![t] = "raised"]
               /\ UNCHANGED <<_MODEL, loads>>
    /\ UNCHANGED <<ready_seen, rvars, pvars, hvars, tvars>>

\* line 46 (return _MODEL) or the raise of line 44 reaches the caller
LeaveGetModel(t) ==
    /\ gm_pc[t] \in {"returned", "raised"}
    /\ gm_pc' = [gm_pc EXCEPT ![t] = "out"]
    /\ UNCHANGED <<_MODEL, loads, ready_seen, rvars, pvars, hvars, tvars>>

\* is_model_ready() returns True to some thread
ReadReady ==
    /\ is_model_ready(_MODEL)
    /\ ~ready_seen
    /\ ready_seen' = TRUE
    /\ UNCHANGED <<_MODEL, gm_pc, loads, rvars, pvars, hvars, tvars>>

ModelNext ==
    \/ \E t \in Callers : TestModel(t)
    \/ \E t \in Callers : ConstructModel(t)
    \/ \E t \in Callers : LeaveGetModel(t)
    \/ ReadReady

SpecModel == ModelInit /\ [][ModelNext]_vars

(***************************************************************************)
(* The Sub-section Refiner: SubsectionAnalyzer.analyze_subsections         *)
(* (subsection_analyzer.py lines 19-50).  A content is the sequence of     *)
(* sentences sent_tokenize gives, each with its identity, the number of    *)
(* words of its stripped text, and its cosine similarity to the query.     *)
(***************************************************************************)
MaxSents == 4        \* sentences of a section
MaxRefined == 2      \* sections of a call with several sections

Sentence(id, words, sim) == [id |-> id, words |-> words, sim |-> sim]

\* a noise sentence of 4 words that is the most similar to the query, and
\* three usable sentences, two of them with equal similarity
SentencePool ==
    { Sentence("n", 4, 9), Sentence("a", 5, 3),
      Sentence("b", 7, 5), Sentence("c", 6, 5) }

Contents == UNION { [1..n -> SentencePool] : n \in 0..MaxSents }

RefinerSection(doc, content, page) ==
    [document |-> doc, content |-> content, page_number |-> page]

\* contents for the calls with several sections: fewer than 3 usable
\* sentences, and 3 with the best one first or last
ContentPool ==
    { << Sentence("a", 5, 3), Sentence("n", 4, 9) >>,
      << Sentence("b", 7, 5), Sentence("a", 5, 3), Sentence("a", 5, 3) >>,
      << Sentence("a", 5, 3), Sentence("n", 4, 9), Sentence("a", 5, 3),
         Sentence("c", 6, 5) >> }

RefinerInputs ==
    { << RefinerSection("a.pdf", c, 1) >> : c \in Contents }
    \cup { [i \in 1..n |-> RefinerSection(IF i = 1 THEN "a.pdf" ELSE "b.pdf",
                                          c[i], i)] :
             <<n, c>> \in UNION { {n} \X [1..n -> ContentPool] : n \in 0..MaxRefined } }

\* the words a sentence must exceed: len(s.strip().split()) > 4
NoiseWords_three == 6 \div 2
NoiseWords == 4

\* sents = [s.strip() for s in sent_tokenize(content) if len(...) > 4]
RECURSIVE UsableSentences(_)
UsableSentences(content) ==
    IF content = <<>> THEN <<>>
    ELSE IF Head(content).words > NoiseWords
         THEN <<Head(content)>> \o UsableSentences(Tail(content))
    ELSE UsableSentences(Tail(content))

\* np.argmax(sim_scores): the first index of the maximum, from 0
ArgMax(sents) ==
    (CHOOSE i \in 1..Len(sents) :
        /\ \A j \in 1..Len(sents) : sents[j].sim <= sents[i].sim
        /\ \A j \in 1..(i - 1) : sents[j].sim < sents[i].sim) - 1

\* start_idx = max(0, best_sent_idx - 1)
WindowStart(best_sent_idx) == Max(0, best_sent_idx - 1)

\* end_idx = min(len(sents), best_sent_idx + 2)
WindowEnd_best_only(n, best_sent_idx) == Min(n, best_sent_idx + 1)
WindowEnd(n, best_sent_idx) == Min(n, best_sent_idx + 2)

\* refined_text: the content itself (raw), or " ".join(sents[start:end])
RefinedText(content) ==
    LET sents == UsableSentences(content)
    IN  IF Len(sents) < 3
        THEN [raw |-> TRUE, sents |-> content]
        ELSE [raw |-> FALSE,
              sents |-> SubSeq(sents, WindowStart(ArgMax(sents)) + 1,
                               WindowEnd(Len(sents), ArgMax(sents)))]

RefineInit ==
    /\ an_sections \in RefinerInputs
    /\ an_pc = "start"
    /\ an_i = 0
    /\ summary_outputs = <<>>
    /\ SegmenterIdle
    /\ ClassifierIdle
    /\ RouteIdle
    /\ _MODEL = Loaded
    /\ gm_pc = NoCallers
    /\ loads = 1
    /\ ready_seen = FALSE
    /\ db = [id \in PdfIds |-> NewRow(NoFile)]
    /\ PipelineIdle
    /\ RankerIdle

\* line 21: if not sections: return []; else enter the loop
EnterAnalyze ==
    /\ an_pc = "start"
    /\ IF an_sections = <<>>
       THEN an_pc' = "done" /\ an_i' = an_i
       ELSE an_pc' = "loop" /\ an_i' = 1
    /\ UNCHANGED <<an_sections, summary_outputs, rvars, mvars, pvars, hvars, svars, ovars>>

\* lines 24-49: one iteration of the loop over sections
RefineSection ==
    /\ an_pc = "loop"
    /\ an_i <= Len(an_sections)
    /\ summary_outputs' = Append(summary_outputs,
          [document |-> an_sections[an_i].document,
           refined_text |-> RefinedText(an_sections[an_i].content),
           page_number |-> an_sections[an_i].page_number])
    /\ an_i' = an_i + 1
    /\ UNCHANGED <<an_pc, an_sections, rvars, mvars, pvars, hvars, svars, ovars>>

\* line 50: return summary_outputs
ReturnSummaries ==
    /\ an_pc = "loop"
    /\ an_i > Len(an_sections)
    /\ an_pc' = "done"
    /\ UNCHANGED <<an_sections, an_i, summary_outputs, rvars, mvars, pvars, hvars, svars, ovars>>

RefineNext == EnterAnalyze \/ RefineSection \/ ReturnSummaries

SpecRefine == RefineInit /\ [][RefineNext]_vars

(***************************************************************************)
(* The Segmenter: PDFProcessor.extract_text_with_structure                 *)
(* (pdf_processor.py lines 15-63).  A page is the list of lines            *)
(* extract_text_lines gives for it, or raises.  A line is described by     *)
(* what the walk reads of it; its text is identified by its position       *)
(* <<page, line>>, so the texts of a document are pairwise distinct.       *)
(***************************************************************************)
MaxPages == 2        \* pages of a document
MaxLines == 2        \* lines of a page

Line(empty, large, bold, words, punct) ==
    [empty |-> empty, large |-> large, bold |-> bold, words |-> words,
     punct |-> punct]

\* a heading (large, bold, 5 words, no final punctuation), a body line and
\* a line whose stripped text is empty
LinePool ==
    { Line(FALSE, TRUE, TRUE, 5, FALSE),
      Line(FALSE, FALSE, FALSE, 8, TRUE),
      Line(TRUE, FALSE, FALSE, 0, FALSE) }

\* the pages tried: one on which extract_text_lines raises, and the pages
\* of at most MaxLines lines, an empty line being the first of its page
Pages ==
    { [raises |-> TRUE, lines |-> <<>>] }
    \cup { [raises |-> FALSE, lines |-> l] :
             l \in { m \in UNION { [1..n -> LinePool] : n \in 0..MaxLines } :
                        \A i \in 2..Len(m) : ~m[i].empty } }

Documents == UNION { [1..n -> Pages] : n \in 0..MaxPages }

\* is_title = is_large_enough and is_bold and is_short_line
\*            and not ends_with_punctuation  (lines 41-47)
IsTitle(line) ==
    /\ line.large
    /\ line.bold
    /\ 3 < line.words /\ line.words < 12
    /\ ~line.punct

\* f"Error processing {doc_filename}" and str(e), which are texts of no line
ErrorTitle == <<0, 0>>
ErrorMessage == << <<0, 1>> >>

NewSection(title, content, page) ==
    [section_title |-> title, content |-> content, page_number |-> page]

\* lines 49-50 and 57-58: if current_section_content.strip():
\* doc_data["sections"].append(...)
Emit_always(secs, title, content, page) ==
    Append(secs, NewSection(title, content, page))
Emit(secs, title, content, page) ==
    IF content # <<>> THEN Append(secs, NewSection(title, content, page))
    ELSE secs

\* line 55: current_section_content += line_text + " "
AppendLine_replace(content, line_text) == << line_text >>
AppendLine(content, line_text) == Append(content, line_text)

SegmentInit ==
    /\ seg_pages \in Documents
    /\ seg_pc = "start"
    /\ page_num = 0
    /\ line_idx = 0
    /\ current_section_title = <<>>
    /\ current_section_content = <<>>
    /\ current_section_page = 1
    /\ doc_sections = <<>>
    /\ seg_error = FALSE
    /\ AnalyzerIdle
    /\ ClassifierIdle
    /\ RouteIdle
    /\ _MODEL = Loaded
    /\ gm_pc = NoCallers
    /\ loads = 1
    /\ ready_seen = FALSE
    /\ db = [id \in PdfIds |-> NewRow(NoFile)]
    /\ PipelineIdle
    /\ RankerIdle

\* lines 19-25: a file without pages returns at once
BeginWalk ==
    /\ seg_pc = "start"
    /\ IF seg_pages = <<>>
       THEN seg_pc' = "done" /\ page_num' = page_num
       ELSE seg_pc' = "page" /\ page_num' = 1
    /\ UNCHANGED <<seg_pages, line_idx, current_section_title,
                   current_section_content, current_section_page,
                   doc_sections, seg_error>>
    /\ UNCHANGED <<avars, ovars, rvars, mvars, pvars, hvars>>

\* line 28: page.extract_text_lines; when it raises, the except clause
\* (lines 57-62) adds the placeholder only if no section was appended
ReadPage ==
    /\ seg_pc = "page"
    /\ page_num <= Len(seg_pages)
    /\ IF seg_pages[page_num].raises
       THEN /\ seg_error' = TRUE
            /\ doc_sections' =
                  IF doc_sections = <<>>
                  THEN << NewSection(ErrorTitle, ErrorMessage, 1) >>
                  ELSE doc_sections
            /\ seg_pc' = "done"
            /\ line_idx' = line_idx
       ELSE /\ seg_pc' = "lines"
            /\ line_idx' = 1
            /\ UNCHANGED <<doc_sections, seg_error>>
    /\ UNCHANGED <<seg_pages, page_num, current_section_title,
                   current_section_content, current_section_page>>
    /\ UNCHANGED <<avars, ovars, rvars, mvars, pvars, hvars>>

\* lines 29-52: one line of the page
WalkLine ==
    /\ seg_pc = "lines"
    /\ line_idx <= Len(seg_pages[page_num].lines)
    /\ LET line == seg_pages[page_num].lines[line_idx]
           line_text == <<page_num, line_idx>>
           title == IF current_section_title = <<>> THEN line_text
                    ELSE current_section_title
       IN  IF line.empty
           THEN UNCHANGED <<current_section_title, current_section_content,
                            current_section_page, doc_sections>>
           ELSE IF IsTitle(line)
           THEN /\ doc_sections' = Emit(doc_sections, title,
                                        current_section_content,
                                        current_section_page)
                /\ current_section_title' = line_text
                /\ current_section_content' = <<>>
                /\ current_section_page' = page_num
           ELSE /\ current_section_title' = title
                /\ current_section_content' =
                      AppendLine(current_section_content, line_text)
                /\ UNCHANGED <<current_section_page, doc_sections>>
    /\ line_idx' = line_idx + 1
    /\ UNCHANGED <<seg_pc, seg_pages, page_num, seg_error>>
    /\ UNCHANGED <<avars, ovars, rvars, mvars, pvars, hvars>>

\* the lines of the page are exhausted: the next page
NextPage ==
    /\ seg_pc = "lines"
    /\ line_idx > Len(seg_pages[page_num].lines)
    /\ page_num' = page_num + 1
    /\ seg_pc' = "page"
    /\ UNCHANGED <<seg_pages, line_idx, current_section_title,
                   current_section_content, current_section_page,
                   doc_sections, seg_error>>
    /\ UNCHANGED <<avars, ovars, rvars, mvars, pvars, hvars>>

\* lines 54-55 and 63: the last section, then return doc_data
FinishWalk ==
    /\ seg_pc = "page"
    /\ page_num > Len(seg_pages)
    /\ doc_sections' = Emit(doc_sections, current_section_title,
                             current_section_content, current_section_page)
    /\ seg_pc' = "done"
    /\ UNCHANGED <<seg_pages, page_num, line_idx, current_section_title,
                   current_section_content, current_section_page, seg_error>>
    /\ UNCHANGED <<avars, ovars, rvars, mvars, pvars, hvars>>

SegmentNext == BeginWalk \/ ReadPage \/ WalkLine \/ NextPage \/ FinishWalk

SpecSegment == SegmentInit /\ [][SegmentNext]_vars


(***************************************************************************)
(* The title test of one line (pdf_processor.py lines 10-13, 21-22 and     *)
(* 36-46), on the values pdfplumber gives: the sizes of the first page's   *)
(* words, and the line's first character's font name and size, its number  *)
(* of words and its last character.  A font name is the sequence of its    *)
(* characters; sizes are in tenths of a point.                             *)
(***************************************************************************)
\* str.lower(), on the letters of the names tried
Lower_identity(c) == c
Lower(c) ==
    CASE c = "A" -> "a" [] c = "B" -> "b" [] c = "C" -> "c" [] c = "D" -> "d"
      [] c = "K" -> "k" [] c = "L" -> "l" [] c = "O" -> "o" [] OTHER -> c

LowerAll(name) == [i \in 1..Len(name) |-> Lower(name[i])]

\* sub in name
Contains(name, sub) ==
    \E i \in 0..(Len(name) - Len(sub)) : SubSeq(name, i + 1, i + Len(sub)) = sub

\* is_bold = 'bold' in font_name or 'black' in font_name, font_name lowered
is_bold(fontname) ==
    LET font_name == LowerAll(fontname)
    IN  \/ Contains(font_name, <<"b", "o", "l", "d">>)
        \/ Contains(font_name, <<"b", "l", "a", "c", "k">>)

\* sorted(sizes)
SortAsc(sizes) ==
    LET n == Len(sizes)
        pos(i) == 1 + Cardinality({ j \in 1..n :
                        \/ sizes[j] < sizes[i]
                        \/ sizes[j] = sizes[i] /\ j < i })
    IN  [p \in 1..n |-> sizes[CHOOSE i \in 1..n : pos(i) = p]]

\* return 10.0 when the page has no word with a size
DefaultMedian == 100

\* _get_median_font_size, times 2: np.median of the sizes that are not 0
Median2(word_sizes) ==
    LET sizes == SortAsc(SelectSeq(word_sizes, LAMBDA x : x # 0))
        n == Len(sizes)
    IN  IF n = 0 THEN 2 * DefaultMedian
        ELSE IF n % 2 = 1 THEN 2 * sizes[(n + 1) \div 2]
        ELSE sizes[n \div 2] + sizes[n \div 2 + 1]

\* font_size > median_body_size * 1.15
is_large_enough(font_size, median2) == font_size * 200 > median2 * 115

\* line_text.endswith('.') or line_text.endswith(',')
ends_with_punctuation(last) == last = "." \/ last = ","

FontNames ==
    { <<>>,
      <<"A", "r", "i", "a", "l">>,
      <<"A", "-", "B", "o", "l", "d">>,
      <<"B", "L", "A", "C", "K">>,
      <<"b", "o", "l", "d", "i">>,
      <<"B", "o", "l", "-", "d">>,
      <<"b", "l", "a", "k">> }

\* the word sizes of the first page: no word, a word without size, medians
\* of 10.0, 11.0 and 10.0
FirstPages ==
    { <<>>, <<0>>, <<0, 100>>, <<120, 100>>, <<140, 90, 100>> }

\* around the thresholds 11.5 and 12.65
FontSizes == { 115, 116, 126, 127 }

WordCounts == { 3, 4, 11, 12 }

LastChars == { ".", ",", "x" }

ClassifierInputs ==
    [word_sizes : FirstPages, fontname : FontNames, size : FontSizes,
     words : WordCounts, last : LastChars]

ClassifyInit ==
    /\ cl_pc = "start"
    /\ cl_input \in ClassifierInputs
    /\ is_title = FALSE
    /\ AnalyzerIdle
    /\ SegmenterIdle
    /\ RouteIdle
    /\ _MODEL = Loaded
    /\ gm_pc = NoCallers
    /\ loads = 1
    /\ ready_seen = FALSE
    /\ db = [id \in PdfIds |-> NewRow(NoFile)]
    /\ PipelineIdle
    /\ RankerIdle

\* lines 36-46: the four tests and their conjunction
Classify ==
    /\ cl_pc = "start"
    /\ is_title' = IsTitle(Line(FALSE,
                               is_large_enough(cl_input.size,
                                               Median2(cl_input.word_sizes)),
                               is_bold(cl_input.fontname),
                               cl_input.words,
                               ends_with_punctuation(cl_input.last)))
    /\ cl_pc' = "done"
    /\ UNCHANGED <<cl_input, wvars, avars, svars, rvars, mvars, pvars, hvars>>

ClassifyNext == Classify

SpecClassify == ClassifyInit /\ [][ClassifyNext]_vars

(***************************************************************************)
(* The single-PDF route: process_pdf (routes/pdf_routes.py lines 14-54),   *)
(* one request at a time over a row the user owns.  The route marks the    *)
(* row, calls process_pdfs_with_ml with its default k, marks the row       *)
(* again and answers.  Each db.session.commit() of the route may raise,    *)
(* and then stores nothing; an exception inside the try block runs the     *)
(* except block of lines 51-54.                                            *)
(***************************************************************************)
\* k: int = 5 in the signature of process_pdfs_with_ml
DefaultTopK == 5

\* job_to_be_done of the route's call
RouteJob == "PDF processing"

\* pdf.processing_status = status, committed
SetStatus(id, status) ==
    db' = [db EXCEPT ![id] =
              [file_data |-> @.file_data,
               sections |-> @.sections,
               processing_status |-> status]]

\* lines 29-32: the row is marked 'processing'
ProcessStart ==
    /\ rt_pc = "idle"
    /\ pc = "idle"
    /\ \E id \in PdfIds : \E committed \in BOOLEAN :
          /\ rt_pdf' = id
          /\ IF committed
             THEN /\ SetStatus(id, "processing")
                  /\ rt_pc' = "call"
             ELSE /\ db' = db
                  /\ rt_pc' = "except"
    /\ rt_status' = 0
    /\ UNCHANGED <<avars, svars, cvars, rvars, mvars, hvars, pc, job_to_be_done,
                   pdf_ids, top_k, pdfs, pdf_i, sections, p_all_sections,
                   query_embedding, result>>

\* lines 35-39: process_pdfs_with_ml(job_to_be_done="PDF processing",
\* user_id=user_id, pdf_ids=[pdf.id])
ProcessCall ==
    /\ rt_pc = "call"
    /\ CallWith(RouteJob, {rt_pdf}, DefaultTopK)
    /\ rt_pc' = "running"
    /\ UNCHANGED <<rt_pdf, rt_status>>

\* lines 42-50: the call returned, whatever it returned: the row is marked
\* 'completed' and the answer is 200
ProcessFinish ==
    /\ rt_pc = "running"
    /\ pc = "done"
    /\ \E committed \in BOOLEAN :
          IF committed
          THEN /\ SetStatus(rt_pdf, "completed")
               /\ rt_status' = 200
               /\ rt_pc' = "returned"
          ELSE /\ db' = db
               /\ rt_status' = 0
               /\ rt_pc' = "except"
    /\ UNCHANGED <<rt_pdf, avars, svars, cvars, rvars, mvars, hvars, pc,
                   job_to_be_done, pdf_ids, top_k, pdfs, pdf_i, sections,
                   p_all_sections, query_embedding, result>>

\* lines 51-54: the row is marked 'failed' and the answer is 500; when this
\* commit raises too the request ends with the row as it was
ProcessExcept ==
    /\ rt_pc = "except"
    /\ \E committed \in BOOLEAN :
          IF committed THEN SetStatus(rt_pdf, "failed") ELSE db' = db
    /\ rt_status' = 500
    /\ rt_pc' = "returned"
    /\ UNCHANGED <<rt_pdf, avars, svars, cvars, rvars, mvars, hvars, pc,
                   job_to_be_done, pdf_ids, top_k, pdfs, pdf_i, sections,
                   p_all_sections, query_embedding, result>>

\* the request is over
ProcessReturn ==
    /\ rt_pc = "returned"
    /\ ForgetCall
    /\ rt_pc' = "idle"
    /\ rt_pdf' = 0
    /\ rt_status' = 0
    /\ UNCHANGED <<avars, svars, cvars, rvars, mvars, db>>

ProcessNext ==
    \/ ProcessStart
    \/ ProcessCall
    \/ GetPdfs
    \/ UseCached
    \/ SkipMissingFile
    \/ ExtractSections
    \/ GenerateEmbeddings
    \/ SaveEmbeddings
    \/ CommitFails
    \/ EndLoop
    \/ EmbedQuery
    \/ ScoreAndFormat
    \/ ProcessFinish
    \/ ProcessExcept
    \/ ProcessReturn

SpecProcess == Init /\ [][ProcessNext]_vars

(***************************************************************************)
(* Claims about the ranker, checked under SpecRank.                        *)
(***************************************************************************)
Remaining == { i \in 1..Len(candidates) : TRUE }

Picks(d) == DocCount(final_results, d)

InResult(d) == rpc = "done" /\ \E i \in 1..Len(ret) : ret[i].document = d

\* the candidates in descending final_score order, as line 174 sorts them
Ranked == SortByFinalScoreDesc(all_sections)

\* one document holds the n highest final scores, another the (n+1)-th
TopHeldBy(n, a, b) ==
    /\ Len(Ranked) >= n + 1
    /\ a # b
    /\ \A i \in 1..n : Ranked[i].document = a
    /\ Ranked[n + 1].document = b

DocNames == { docs[i].filename : i \in 1..Len(docs) }

ScenarioScored ==
    /\ Len(all_sections) = 7
    /\ [i \in 1..7 |-> all_sections[i].final_score]
         = <<9000, 8500, 8000, 3000, 1000, 7000, 6000>>
    /\ [i \in 1..7 |-> all_sections[i].document]
         = <<"a.pdf", "a.pdf", "a.pdf", "a.pdf", "a.pdf", "b.pdf", "b.pdf">>
    /\ \A i \in 1..7 : \A j \in 1..7 :
          i # j => all_sections[i].section_title # all_sections[j].section_title

\* C2: on the scenario corpus with k = 3 the ranker returns A's 0.9
\* section, then B's 0.7 section, then A's 0.85 section.
C2_Scenario ==
    (rpc = "done" /\ ScenarioScored /\ k = 3)
    => ret = << all_sections[1], all_sections[6], all_sections[2] >>

C2_Witness ==
    /\ rpc = "done" /\ ScenarioScored /\ k = 3
    /\ Len(ret) = 3
    /\ ret[2].document = "b.pdf"

\* C3: for every k >= 1 the ranker never holds, and never returns, more
\* than k results.
C3_AtMostK ==
    /\ Len(final_results) <= k
    /\ rpc = "done" => Len(ret) <= k

\* the loop stopped at k results while candidates were left
C3_Witness ==
    /\ rpc = "done"
    /\ Len(ret) = k
    /\ \E i \in Remaining : ~TitleSeen(candidates[i], seen_titles)

\* C4: no two selected sections have the same title, whatever their
\* documents, and after each round seen_titles has as many elements as
\* final_results.
C4_DistinctTitles ==
    /\ \A i \in 1..Len(final_results) : \A j \in 1..Len(final_results) :
          i # j => final_results[i].section_title # final_results[j].section_title
    /\ Cardinality(seen_titles) = Len(final_results)
    /\ rpc = "done" =>
          \A i \in 1..Len(ret) : \A j \in 1..Len(ret) :
              i # j => ret[i].section_title # ret[j].section_title

\* a section was passed over in a round because a section of another
\* document with the same title had been selected
C4_Witness ==
    /\ rpc = "done"
    /\ Len(ret) >= 1
    /\ Len(ret) < k
    /\ \E i \in Remaining : \E j \in 1..Len(ret) :
          /\ candidates[i].section_title = ret[j].section_title
          /\ candidates[i].document # ret[j].document

(***************************************************************************)
(* Claims about the orchestrator, checked under Spec.                      *)
(***************************************************************************)
Returned == pc = "done"

\* the for loop over pdfs ran to its end in the current call
LoopFinished == pdfs # <<>> /\ pdf_i > Len(pdfs)

\* the request the specification rejects: empty task, k <= 0, no documents
InvalidRequest == job_to_be_done = "" \/ top_k <= 0 \/ pdf_ids = {}

\* C5 as stated: no section whose title contains a file-extension-like
\* substring such as ".pdf" is present in the ranking output.
C5_AsStated ==
    (Returned /\ ~InvalidRequest /\ result.kind = "insights")
    => \A i \in 1..Len(result.sections) :
          ~ContainsDotPdf(result.sections[i].sectionTitle)

\* the document has sections, and each has fewer than 10 words
AllSectionsShort(file) ==
    /\ file.present
    /\ \A n \in TempNames :
          /\ extract_text_with_structure(file, n) # <<>>
          /\ \A i \in 1..Len(extract_text_with_structure(file, n)) :
                LET sec == extract_text_with_structure(file, n)[i]
                IN  SectionTextWords(sec.section_title, sec.content)
                        < MinSectionWords

\* C6 as stated: on a single-document corpus whose sections all have fewer
\* than 10 words the call returns the normal shape with no sections and
\* total_sections_processed = 0, not an error.
C6_AsStated ==
    ( /\ Returned
      /\ ~InvalidRequest
      /\ LoopFinished
      /\ \E id \in PdfIds : pdf_ids = {id} /\ AllSectionsShort(db[id].file_data) )
    => result = InsightsResult(<<>>, 0)

\* C7 as stated: a request with an empty task description, a non-positive
\* k or no documents makes no embedding call, for sections or for the
\* query, and returns an error.
C7_AsStated ==
    (pc # "idle" /\ InvalidRequest)
    => /\ section_encodes = ZeroCounts
       /\ query_encodes = 0
       /\ Returned => result.kind = "error"

\* C8: while the model is not loaded encode_text raises, and a call that
\* finds it not ready returns the error at once: no document is read,
\* segmented, embedded or committed.
C8_ModelUnavailable ==
    /\ _MODEL = NotLoaded =>
          \A job \in Jobs : \A fails \in BOOLEAN :
              encode_text(_MODEL, JobText(job), fails).raised
    /\ (pc # "idle" /\ model_seen = NotLoaded) =>
          /\ Returned
          /\ result = ErrorResult("ML model not ready")
          /\ db_reads = 0
          /\ extractions = ZeroCounts
          /\ section_encodes = ZeroCounts
          /\ query_encodes = 0
          /\ commits = ZeroCounts
          /\ \A id \in PdfIds : ~existing_seen[id].read

\* a well-formed request over stored documents met the unloaded model
C8_Witness ==
    /\ Returned
    /\ model_seen = NotLoaded
    /\ ~InvalidRequest
    /\ \E id \in pdf_ids : db[id].file_data = FileGood
    /\ result.kind = "error"

\* every cached section carries a non-empty embedding
AllEmbedded(secs) ==
    secs # <<>> /\ \A i \in 1..Len(secs) : secs[i].embedding # <<>>

\* C9: a document whose cached sections all carry an embedding is neither
\* segmented nor embedded again; the query is embedded at most once.
C9_NoReembedding ==
    /\ \A id \in PdfIds :
          (existing_seen[id].read /\ AllEmbedded(existing_seen[id].sections))
          => /\ section_encodes[id] = 0
             /\ extractions[id] = 0
    /\ query_encodes <= 1

\* a call over two cached documents returned insights, with the one
\* embedding call of the query
C9_Witness ==
    /\ Returned
    /\ result.kind = "insights"
    /\ pdf_ids = PdfIds
    /\ \A id \in pdf_ids :
          existing_seen[id].read /\ AllEmbedded(existing_seen[id].sections)
    /\ query_encodes = 1

\* the name of the temporary file in the run that produced the persisted
\* rows of the document
ProducedUnder(id) ==
    IF \E i \in 1..Len(db[id].sections) :
          db[id].sections[i].section_title = ErrorProcessing("tmp2.pdf")
    THEN "tmp2.pdf" ELSE "tmp1.pdf"

\* What the fresh run that produced the cache returns on the raw input:
\* every stored file segmented and embedded by the deterministic model,
\* with no call failing.
FreshSections(id) ==
    IF db[id].file_data.present
    THEN Tagged(generate_embeddings_for_sections(
                    Loaded,
                    extract_sections_from_pdf(db[id].file_data, ProducedUnder(id)),
                    {}), id)
    ELSE <<>>

RECURSIVE FreshAll(_)
FreshAll(ids) ==
    IF ids = <<>> THEN <<>> ELSE FreshSections(Head(ids)) \o FreshAll(Tail(ids))

FreshCards ==
    LET q == encode_text(Loaded, JobText(job_to_be_done), FALSE).value
    IN  InsightCards(Slice(SortByRelevanceDesc(FreshAll(pdfs), q), top_k), q)

\* the same sections with the same scores in the same order (the card id,
\* built from section_index, is not compared)
SameRanking(a, b) ==
    /\ Len(a) = Len(b)
    /\ \A i \in 1..Len(a) :
          /\ a[i].pdfName = b[i].pdfName
          /\ a[i].sectionTitle = b[i].sectionTitle
          /\ a[i].content = b[i].content
          /\ a[i].pageNumber = b[i].pageNumber
          /\ a[i].importanceRank = b[i].importanceRank
          /\ a[i].relevanceScore = b[i].relevanceScore

\* every document of the call was served from its cache
CachedRun ==
    /\ pdf_ids # {}
    /\ \A id \in pdf_ids :
          existing_seen[id].read /\ AllEmbedded(existing_seen[id].sections)

\* every document of the call was segmented and embedded, no call failing
FreshRun ==
    /\ pdf_ids # {}
    /\ \A id \in pdf_ids : extractions[id] = 1
    /\ \A i \in 1..Len(p_all_sections) : p_all_sections[i].embedding # <<>>

\* C10: a run served from the cache and a fresh run both return the
\* ranking of the raw input under the deterministic model, so the cached
\* run returns the sections of the fresh run in the same score order.
C10_SameRanking ==
    (Returned /\ result.kind = "insights" /\ (CachedRun \/ FreshRun))
    => SameRanking(result.sections, FreshCards)

\* a cached run over two documents returned at least two ranked sections
C10_Witness ==
    /\ Returned
    /\ result.kind = "insights"
    /\ CachedRun
    /\ pdf_ids = PdfIds
    /\ Len(result.sections) >= 2
    /\ result.sections[1].relevanceScore > result.sections[2].relevanceScore

\* the document was served from its cache in the current call
ServedFromCache(id) ==
    existing_seen[id].read /\ AllEmbedded(existing_seen[id].sections)

\* the loop of the current call is over and scoring is next or done
PastLoop == pc \in {"query", "score"} \/ (Returned /\ result.kind = "insights")

\* C11 as stated: within one call a document's sections are committed at
\* most once, never for a cached document, exactly once for a segmented
\* document before scoring starts, and only after the embedding succeeded
\* for every section of the document.
C11_AsStated ==
    ~InvalidRequest =>
    \A id \in PdfIds :
        /\ commits[id] <= 1
        /\ ServedFromCache(id) => commits[id] = 0
        /\ (PastLoop /\ extractions[id] = 1) => commits[id] = 1
        /\ commits[id] = 1 =>
              \A i \in 1..Len(db[id].sections) :
                  db[id].sections[i].embedding_json # <<>>

\* The stage of the specification's state machine a position of
\* process_pdfs_with_ml belongs to.  No position of the function is a
\* Refining stage: it never calls SubsectionAnalyzer.
Stage ==
    CASE pc \in {"idle", "get_pdfs"} -> "Idle"
      [] pc = "loop" /\ pdf_i <= Len(pdfs) -> "Segmenting"
      [] pc = "loop" /\ pdf_i > Len(pdfs) -> "Scoring"
      [] pc \in {"embed", "save"} -> "Embedding"
      [] pc \in {"query", "score"} -> "Scoring"
      [] pc = "done" /\ result.kind = "insights" -> "Done"
      [] OTHER -> "Failed"

StageRank(st) ==
    CASE st = "Idle" -> 0
      [] st = "Segmenting" -> 1
      [] st = "Embedding" -> 2
      [] st = "Scoring" -> 3
      [] st = "Refining" -> 4
      [] st = "Done" -> 5
      [] OTHER -> 6

\* C12 as stated: a step of a request keeps its stage, moves to the next
\* stage of Idle, Segmenting, Embedding, Scoring, Refining, Done (a cached
\* document passes from Segmenting to Scoring, the next document takes the
\* request from Embedding back to Segmenting), or fails; so Done is entered
\* only from Refining.
C12_AsStated ==
    [][ pc # "done" =>
          \/ Stage' = Stage
          \/ Stage' = "Failed"
          \/ StageRank(Stage') = StageRank(Stage) + 1
          \/ Stage = "Segmenting" /\ Stage' = "Scoring"
          \/ Stage = "Embedding" /\ Stage' \in {"Segmenting", "Scoring"}
      ]_vars

\* The selection loop of get_sections_with_content (lines 177-204) as a
\* function of the sorted candidates and k.
RECURSIVE GreedySelect(_, _, _, _)
GreedySelect(cands, results, seen, kk) ==
    IF ~(Len(results) < kk /\ cands # <<>>) THEN results
    ELSE LET b == BestCandidate(cands, results, seen)
         IN  IF b = 0 THEN results
             ELSE GreedySelect(RemoveFirst(cands, cands[b]),
                               Append(results, cands[b]),
                               seen \cup {cands[b].section_title}, kk)

\* The orchestrator's sections as the ranker's candidates: the title filter
\* applied, final_score = 0.4 * relevance (no theme), in 1/10000.
RECURSIVE RankerCandidates(_, _)
RankerCandidates(secs, q) ==
    IF secs = <<>> THEN <<>>
    ELSE IF ContainsDotPdf(Head(secs).section_title)
         THEN RankerCandidates(Tail(secs), q)
    ELSE << [section_title |-> Head(secs).section_title,
             document |-> Head(secs).source_pdf,
             final_score |-> RelevanceScore(Head(secs), q) * 160] >>
         \o RankerCandidates(Tail(secs), q)

RankerSelection ==
    GreedySelect(SortByFinalScoreDesc(RankerCandidates(p_all_sections, query_embedding)),
                 <<>>, {}, top_k)

\* C13 as stated: the sections the orchestrator returns are the selection
\* of the ranker's diversity-penalized greedy top-k, with its title filter
\* and title de-duplication, on the same sections: the same documents and
\* titles in the same order.
C13_AsStated ==
    (Returned /\ ~InvalidRequest /\ result.kind = "insights")
    => /\ Len(result.sections) = Len(RankerSelection)
       /\ \A i \in 1..Len(result.sections) :
             /\ result.sections[i].pdfName = RankerSelection[i].document
             /\ result.sections[i].sectionTitle = RankerSelection[i].section_title

\* C14 as stated: under any interleaving of get_model callers the model is
\* constructed at most once, and once is_model_ready() has returned True
\* the model stays ready.
C14_AsStated ==
    /\ loads <= 1
    /\ ready_seen => is_model_ready(_MODEL)

(***************************************************************************)
(* Claims about the Sub-section Refiner, checked under SpecRefine.         *)
(***************************************************************************)
\* the positions in a content of its sentences of more than 4 words
UsablePositions(content) == { j \in 1..Len(content) : content[j].words > 4 }

\* the p-th usable sentence of a content
NthUsable(content, p) ==
    content[CHOOSE j \in UsablePositions(content) :
                Cardinality({ h \in UsablePositions(content) : h <= j }) = p]

\* refined is the join of the usable sentences [lo, hi) of the content,
\* counted from 0
IsJoinOf(refined, content, lo, hi) ==
    /\ ~refined.raw
    /\ Len(refined.sents) = hi - lo
    /\ \A p \in 1..(hi - lo) : refined.sents[p] = NthUsable(content, lo + p)

\* C15: the call returns one excerpt per section in input order; with n
\* usable sentences (more than 4 words), n >= 3 and i the first index of
\* the highest similarity, the excerpt is the join of the usable sentences
\* [max(0, i-1), min(n, i+2)); with n < 3 it is the raw content.
C15_ContextWindow ==
    an_pc = "done" =>
        /\ Len(summary_outputs) = Len(an_sections)
        /\ \A x \in 1..Len(an_sections) :
              LET content == an_sections[x].content
                  n == Cardinality(UsablePositions(content))
                  out == summary_outputs[x]
              IN  /\ out.document = an_sections[x].document
                  /\ out.page_number = an_sections[x].page_number
                  /\ n < 3 => out.refined_text.raw
                              /\ out.refined_text.sents = content
                  /\ n >= 3 =>
                        \E i \in 0..(n - 1) :
                            /\ \A p \in 1..n : NthUsable(content, p).sim
                                                 <= NthUsable(content, i + 1).sim
                            /\ \A p \in 1..i : NthUsable(content, p).sim
                                                 < NthUsable(content, i + 1).sim
                            /\ IsJoinOf(out.refined_text, content,
                                        Max(0, i - 1), Min(n, i + 2))

\* a call over two sections returned: one kept raw, one cut to a window
\* that leaves out a usable sentence
C15_Witness ==
    /\ an_pc = "done"
    /\ Len(an_sections) = 2
    /\ summary_outputs[1].refined_text.raw
    /\ ~summary_outputs[2].refined_text.raw
    /\ Len(summary_outputs[2].refined_text.sents)
          < Cardinality(UsablePositions(an_sections[2].content))

(***************************************************************************)
(* Claims about the orchestrator's output, checked under Spec.             *)
(***************************************************************************)
\* the sections of all_sections that a returned card names by its id
CardSources(card) ==
    { j \in 1..Len(p_all_sections) :
         card.id = <<"insight", p_all_sections[j].pdf_id,
                     p_all_sections[j].section_index>>
         /\ card.pdfName = p_all_sections[j].source_pdf
         /\ card.sectionTitle = p_all_sections[j].section_title }

\* C16: the content of a returned card is the first 300 characters of the
\* section's content followed by "..." when the content is longer than 300
\* characters, and the content unchanged when it has 300 or fewer.
C16_Truncation ==
    (Returned /\ result.kind = "insights")
    => \A i \in 1..Len(result.sections) :
          LET card == result.sections[i].content
          IN  /\ \E j \in CardSources(result.sections[i]) :
                    card.of = p_all_sections[j].content
              /\ card.of.len > 300 => card.chars = 300 /\ card.ellipsis
              /\ card.of.len <= 300 => card.chars = card.of.len /\ ~card.ellipsis

\* a result with a card cut at 300 characters and a card of exactly 300
\* characters left whole
C16_Witness ==
    /\ Returned
    /\ result.kind = "insights"
    /\ \E i, j \in 1..Len(result.sections) :
          /\ result.sections[i].content.of.len = 301
          /\ result.sections[i].content.ellipsis
          /\ result.sections[j].content.of.len = 300
          /\ ~result.sections[j].content.ellipsis

\* C17: in a successful output with n sections the importance ranks are
\* 1..n in list order and top_insights_returned is n.
C17_ImportanceRank ==
    (Returned /\ result.kind = "insights")
    => /\ \A i \in 1..Len(result.sections) :
             result.sections[i].importanceRank = i
       /\ result.top_insights_returned = Len(result.sections)

\* a successful output with two sections
C17_Witness ==
    /\ Returned
    /\ result.kind = "insights"
    /\ Len(result.sections) = 2
    /\ result.top_insights_returned = 2
    /\ result.total_sections_processed > 2

(***************************************************************************)
(* Claims about the Segmenter, checked under SpecSegment.                  *)
(***************************************************************************)
\* C18 as stated: when extraction raises at any point of the walk, also
\* after sections were appended, the segmenter returns exactly one section,
\* whose content is the error message.
C18_AsStated ==
    (seg_pc = "done" /\ seg_error)
    => /\ Len(doc_sections) = 1
       /\ doc_sections[1].content = ErrorMessage

(***************************************************************************)
(* Claims about the ranker's selection loop, checked under SpecRank.       *)
(***************************************************************************)
\* final_score * (1 - 0.60 * c) in 1/100000, c the sections of the
\* candidate's document in the result
ClaimedScore(cand, results) ==
    cand.final_score * (10 - 6 * Cardinality({ i \in 1..Len(results) :
                                                 results[i].document = cand.document }))

\* the positions of the candidates whose title is not chosen yet
Eligible == { i \in 1..Len(candidates) :
                \A j \in 1..Len(final_results) :
                    final_results[j].section_title # candidates[i].section_title }

\* position p holds the first maximum of the claimed score among the
\* eligible candidates
FirstMaximum(p) ==
    /\ p \in Eligible
    /\ \A i \in Eligible :
          ClaimedScore(candidates[i], final_results)
             <= ClaimedScore(candidates[p], final_results)
    /\ \A i \in Eligible :
          i < p => ClaimedScore(candidates[i], final_results)
                     < ClaimedScore(candidates[p], final_results)

\* C19: the section a round picks is the first, in the list sorted by
\* descending final_score, of the eligible candidates with the maximum
\* final_score * (1 - 0.60 * c), c counted at the start of the round.
C19_GreedyRule ==
    [][ /\ \A i \in 1..Len(candidates') : \A j \in 1..Len(candidates') :
              i < j => candidates'[i].final_score >= candidates'[j].final_score
        /\ Len(final_results') = Len(final_results) + 1 =>
              \E p \in 1..Len(candidates) :
                  /\ FirstMaximum(p)
                  /\ final_results' = Append(final_results, candidates[p])
                  /\ candidates' = SubSeq(candidates, 1, p - 1)
                                     \o SubSeq(candidates, p + 1, Len(candidates))
      ]_vars

\* a run whose first pick won a tie against an equal section of the other
\* document, which is still in the list, and whose second pick came from
\* the document of the first, so with a penalty
C19_Witness ==
    /\ rpc = "done"
    /\ Len(ret) >= 2
    /\ \E i \in 1..Len(candidates) :
          /\ candidates[i].final_score = ret[1].final_score
          /\ candidates[i].section_title = ret[1].section_title
          /\ candidates[i].document # ret[1].document
    /\ ret[2].document = ret[1].document

\* the titles of the candidates that passed the filters
CandidateTitles ==
    { all_sections[i].section_title : i \in 1..Len(all_sections) }

\* C20 as stated: the ranker returns min(k, number of distinct titles among
\* the candidates that passed filtering) sections, so fewer than k only
\* when no unselected candidate with a new title remains.
C20_AsStated ==
    rpc = "done" => Len(ret) = Min(k, Cardinality(CandidateTitles))

(***************************************************************************)
(* Claims about the per-document cache, checked under Spec.                *)
(***************************************************************************)
\* the loop of the current call has gone past the document
Handled(id) == \E j \in 1..Len(pdfs) : j < pdf_i /\ pdfs[j] = id

\* the cache of the document as the current call read it had a section
\* with an embedding and a section without one
PartialCache(id) ==
    /\ existing_seen[id].read
    /\ \E i \in 1..Len(existing_seen[id].sections) :
          existing_seen[id].sections[i].embedding # <<>>
    /\ \E i \in 1..Len(existing_seen[id].sections) :
          existing_seen[id].sections[i].embedding = <<>>

\* C21: the cached sections of a document are reused only when the cache
\* is non-empty and every cached section has an embedding, and then the
\* rows are left as they were; otherwise the document is segmented and
\* embedded whole and every persisted row is replaced by a row of the new
\* segmentation, in its order.
C21_AllOrNothing ==
    \A id \in PdfIds :
        existing_seen[id].read =>
        LET seen == existing_seen[id].sections
            fresh == extract_sections_from_pdf(db[id].file_data, ProducedUnder(id))
        IN  /\ AllEmbedded(seen)
                => /\ extractions[id] = 0
                   /\ section_encodes[id] = 0
                   /\ commits[id] = 0
                   /\ get_sections_with_embeddings(db[id]) = seen
            /\ (~AllEmbedded(seen) /\ Handled(id)
                  /\ (seen # <<>> \/ db[id].file_data.present))
                => /\ extractions[id] = 1
                   /\ section_encodes[id] = Len(fresh)
                   /\ commits[id] = 1
                   /\ Len(db[id].sections) = Len(fresh)
                   /\ \A i \in 1..Len(fresh) :
                         /\ db[id].sections[i].section_title = fresh[i].section_title
                         /\ db[id].sections[i].content = fresh[i].content
                         /\ db[id].sections[i].page_number = fresh[i].page_number
                         /\ db[id].sections[i].section_index = i - 1

\* a document whose cache was partly embedded has been segmented again and
\* committed, and a row that had its embedding in the cache has none now
C21_Witness ==
    \E id \in PdfIds :
        /\ PartialCache(id)
        /\ Handled(id)
        /\ commits[id] = 1
        /\ \E i \in 1..Len(db[id].sections) :
              /\ i <= Len(existing_seen[id].sections)
              /\ existing_seen[id].sections[i].embedding # <<>>
              /\ db[id].sections[i].embedding_json = <<>>

\* an earlier request committed sections of the document
Committed(id) == db[id].sections # <<>>

\* C22 as stated: once a request has committed a document's sections,
\* every later request takes the cached path for it (no segmentation, no
\* section embedding call), and a request that fails before the commit
\* leaves the persisted rows as they were.
C22_AsStated ==
    [][ /\ \A id \in PdfIds :
              (~InvalidRequest /\ extractions'[id] > extractions[id])
              => ~Committed(id)
        /\ (pc # "done" /\ pc' = "done" /\ result'.kind = "error")
            => db' = db ]_vars

\* C23 as stated: no step of a request changes the title, the content or
\* the page number of a section that is persisted for a document; only its
\* embedding may change.
C23_AsStated ==
    [][ \A id \in PdfIds : \A i \in 1..Len(db[id].sections) :
           /\ i <= Len(db'[id].sections)
           /\ db'[id].sections[i].section_title = db[id].sections[i].section_title
           /\ db'[id].sections[i].content = db[id].sections[i].content
           /\ db'[id].sections[i].page_number = db[id].sections[i].page_number
      ]_vars

(***************************************************************************)
(* Claims about the Segmenter's line walk, checked under SpecSegment.      *)
(***************************************************************************)
\* the sections of doc_data that are not the placeholder of a failure
EmittedSections ==
    { i \in 1..Len(doc_sections) : doc_sections[i].section_title # ErrorTitle }

\* C24 as stated: the page_number of an emitted section is the page of
\* its first line, which is the line that gave the section its title (the
\* first non-empty line of the document, or a title line).
C24_AsStated ==
    \A i \in EmittedSections :
        doc_sections[i].page_number = doc_sections[i].section_title[1]

\* the positions <<page, line>> of the non-empty lines, in page order
RECURSIVE LinesFrom(_, _, _)
LinesFrom(pages, p, l) ==
    IF p > Len(pages) THEN <<>>
    ELSE IF l > Len(pages[p].lines) THEN LinesFrom(pages, p + 1, 1)
    ELSE (IF pages[p].lines[l].empty THEN <<>> ELSE << <<p, l>> >>)
         \o LinesFrom(pages, p, l + 1)

FlatLines == LinesFrom(seg_pages, 1, 1)

LineAt(pos) == seg_pages[pos[1]].lines[pos[2]]

TitleAt(i) == IsTitle(LineAt(FlatLines[i]))

\* a line that opens a section: the first non-empty line, or a title line
Opens(i) == i = 1 \/ TitleAt(i)

\* the position after the lines that follow opener i up to the next opener
NextOpener(i) ==
    IF \E j \in (i + 1)..Len(FlatLines) : Opens(j)
    THEN CHOOSE j \in (i + 1)..Len(FlatLines) :
            Opens(j) /\ \A h \in (i + 1)..(j - 1) : ~Opens(h)
    ELSE Len(FlatLines) + 1

\* the lines accumulated under opener i: the lines after it, and itself
\* when it is not a title line
Group(i) ==
    SubSeq(FlatLines, IF TitleAt(i) THEN i + 1 ELSE i, NextOpener(i) - 1)

\* the sections the walk is to emit, from opener i on: title and content
RECURSIVE ExpectedFrom(_)
ExpectedFrom(i) ==
    IF i > Len(FlatLines) THEN <<>>
    ELSE (IF Group(i) # <<>>
          THEN << [section_title |-> FlatLines[i], content |-> Group(i)] >>
          ELSE <<>>)
         \o ExpectedFrom(NextOpener(i))

\* position a is before position b in the document
Before(a, b) == a[1] < b[1] \/ (a[1] = b[1] /\ a[2] < b[2])

\* C25: the walk visits the lines in page order; the first non-empty line
\* gives the initial section its title; a title line emits the current
\* section if and only if its content is non-empty and opens a section
\* with that line as title; every other line joins the current content;
\* at the end the current section is emitted if and only if its content
\* is non-empty.  So every emitted section has non-empty content and the
\* sections are in document order.
C25_LineWalk ==
    /\ \A i \in EmittedSections :
          /\ doc_sections[i].content # <<>>
          /\ \A j \in 1..(Len(doc_sections[i].content) - 1) :
                Before(doc_sections[i].content[j], doc_sections[i].content[j + 1])
          /\ \A h \in EmittedSections :
                h < i => Before(doc_sections[h].content[Len(doc_sections[h].content)],
                                doc_sections[i].section_title)
    /\ (seg_pc = "done" /\ ~seg_error)
          => [i \in 1..Len(doc_sections) |->
                 [section_title |-> doc_sections[i].section_title,
                  content |-> doc_sections[i].content]]
             = ExpectedFrom(1)

\* the walk returned two sections; a title line that followed a title line
\* emitted nothing, and the last section was emitted at the end
C25_Witness ==
    /\ seg_pc = "done"
    /\ ~seg_error
    /\ Len(doc_sections) = 2
    /\ \E i \in 1..(Len(FlatLines) - 1) : TitleAt(i) /\ TitleAt(i + 1)
    /\ ~TitleAt(Len(FlatLines))

\* the contents of the sections, one after the other
RECURSIVE AllContent(_)
AllContent(secs) ==
    IF secs = <<>> THEN <<>> ELSE Head(secs).content \o AllContent(Tail(secs))

\* the non-empty lines that are not title lines, in document order
RECURSIVE BodyLines(_)
BodyLines(i) ==
    IF i > Len(FlatLines) THEN <<>>
    ELSE (IF TitleAt(i) THEN <<>> ELSE << FlatLines[i] >>) \o BodyLines(i + 1)

\* C29: when extraction does not fail, the contents of the emitted
\* sections, one after the other, are the non-empty lines that are not
\* title lines, each once and in document order.
C29_NoTextLost ==
    (seg_pc = "done" /\ ~seg_error) => AllContent(doc_sections) = BodyLines(1)

\* a walk over two pages returned two sections holding three body lines
C29_Witness ==
    /\ seg_pc = "done"
    /\ ~seg_error
    /\ Len(seg_pages) = 2
    /\ Len(doc_sections) = 2
    /\ Len(BodyLines(1)) = 3

(***************************************************************************)
(* Claim about the title test, checked under SpecClassify.                 *)
(***************************************************************************)
\* character c is the letter l, in either case
SameLetter(c, l) ==
    c = l \/ <<c, l>> \in { <<"A", "a">>, <<"B", "b">>, <<"C", "c">>,
                            <<"D", "d">>, <<"K", "k">>, <<"L", "l">>,
                            <<"O", "o">> }

\* the name contains the word, letters compared in either case
HasWord(name, word) ==
    \E i \in 0..(Len(name) - Len(word)) :
        \A j \in 1..Len(word) : SameLetter(name[i + j], word[j])

\* C26: a line is a title line if and only if the font name of its first
\* character contains "bold" or "black" (in any letter case), that
\* character's size is strictly greater than 1.15 times the median word
\* size of the first page, its word count w has 3 < w < 12, and it does not
\* end with "." or ",".
C26_TitleRule ==
    cl_pc = "done" =>
    ( is_title <=>
        /\ \/ HasWord(cl_input.fontname, <<"b", "o", "l", "d">>)
           \/ HasWord(cl_input.fontname, <<"b", "l", "a", "c", "k">>)
        /\ 200 * cl_input.size > 115 * Median2(cl_input.word_sizes)
        /\ cl_input.words \in 4..11
        /\ cl_input.last \notin { ".", "," } )

\* a line of 11 words in a font named BLACK, just above the threshold of a
\* first page of median 11.0, was classified a title line
C26_Witness ==
    /\ cl_pc = "done"
    /\ is_title
    /\ cl_input.fontname = <<"B", "L", "A", "C", "K">>
    /\ cl_input.word_sizes = <<120, 100>>
    /\ cl_input.size = 127
    /\ cl_input.words = 11

(***************************************************************************)
(* Claim about the diversity penalty, checked under SpecRank.              *)
(***************************************************************************)
\* C27 as stated: the penalized score final_score * (1 - 0.60 * c) of a
\* candidate never increases when the number c of sections selected from
\* its document grows: a selection never raises the penalized score of a
\* candidate that remains.
C27_AsStated ==
    [][ \A i \in 1..Len(candidates') :
           PenalizedScore(candidates'[i], final_results')
               <= PenalizedScore(candidates'[i], final_results) ]_vars


\* the sections a later call reads for the document once its rows are
\* committed (main.py lines 183-189)
CachedSections(id) == Tagged(get_sections_with_embeddings(db[id]), id)

\* C28 as stated: the card id "insight-{pdf_id}-{section_index}" returned
\* by the run that segments a document equals the id a later cached run
\* returns for the same section: the section_index assigned during
\* extraction equals the section_index persisted by save_embeddings_to_db,
\* also when sections of the document were filtered out as too short.
C28_AsStated ==
    (Returned /\ result.kind = "insights")
    => \A c \in 1..Len(result.sections) :
          LET card == result.sections[c]
              id == card.id[2]
          IN  commits[id] = 1
              => \E j \in 1..Len(CachedSections(id)) :
                    /\ CachedSections(id)[j].section_title = card.sectionTitle
                    /\ card.id = <<"insight", id,
                                   CachedSections(id)[j].section_index>>


(***************************************************************************)
(* Claims about process_pdf, checked under SpecProcess.                    *)
(***************************************************************************)
\* the request called process_pdfs_with_ml, which returned, and the route
\* has answered
ProcessFinished == rt_pc = "returned" /\ pc = "done"

\* C30 as stated: after process_pdf finishes, processing_status is
\* 'completed' only if process_pdfs_with_ml returned a result without an
\* 'error' key, it is 'failed' whenever the pipeline reported an error, and
\* it never remains 'processing'.
C30_AsStated ==
    ProcessFinished
    => /\ db[rt_pdf].processing_status = "completed" => result.kind # "error"
       /\ result.kind = "error" => db[rt_pdf].processing_status = "failed"
       /\ db[rt_pdf].processing_status # "processing"

====
